---- MODULE Spec2Model ----
(***************************************************************************)
(* ExcelSlimmer (excel_slimmer_qt.py): the bridge between the UI thread    *)
(* (MainWindow) and the worker thread (PipelineWorker.run).                *)
(*                                                                         *)
(* Threads: the Qt main thread runs every MainWindow slot; each accepted   *)
(* run request starts one Python thread that executes PipelineWorker.run.  *)
(* A PipelineWorker is a QObject created on the main thread, so a signal   *)
(* emitted from the worker thread is a queued connection: the call is      *)
(* posted to the main thread's event queue (FIFO) and the slot runs later, *)
(* on the main thread.  QMessageBox.* is modal: it blocks its caller in a  *)
(* nested event loop, which keeps delivering posted events and blocks user *)
(* input to the main window until the box is dismissed.                    *)
(*                                                                         *)
(* Percentages are Python floats; here a percentage is the integer number  *)
(* of halves of a percent (25 is 12.5, 200 is 100.0), so that int() in     *)
(* _set_status is a real truncation.                                       *)
(***************************************************************************)
EXTENDS Integers, Sequences, FiniteSets, TLC

\* ---------------------------------------------------------------- bounds
MaxJobs == 2
MaxInputs == 4

Jobs == 1..MaxJobs

RECURSIVE SumTo(_, _)
SumTo(f, n) == IF n = 0 THEN 0 ELSE f[n] + SumTo(f, n - 1)


\* ---------------------------------------------------------------- strings
\* A path string is a sequence of one-character strings.
NoText == <<>>
BookXlsx == <<"a", ".", "x", "l", "s", "x">>
MacroXlsm == <<"b", ".", "X", "L", "S", "M">>
NotesTxt == <<"c", ".", "t", "x", "t">>
OldXls == <<"d", ".", "x", "l", "s">>
NoSuffix == <<"e">>
PaddedXlsx == <<"f", ".", "x", "l", "s", "x", " ">>

\* every file of the model, and the files on disk when the window opens
AllFiles == {BookXlsx, MacroXlsm, NotesTxt, OldXls, NoSuffix, PaddedXlsx}
StartFiles == {BookXlsx, NotesTxt}

IsSpace(c) == c = " "

RECURSIVE LStrip(_)
LStrip(s) == IF s # <<>> /\ IsSpace(Head(s)) THEN LStrip(Tail(s)) ELSE s

RECURSIVE RStrip(_)
RStrip(s) ==
    IF s # <<>> /\ IsSpace(s[Len(s)]) THEN RStrip(SubSeq(s, 1, Len(s) - 1)) ELSE s

\* str.strip()
Strip(s) == RStrip(LStrip(s))

\* str.lower() on the characters the model uses
LowerChar(c) ==
    CASE c = "X" -> "x"
      [] c = "L" -> "l"
      [] c = "S" -> "s"
      [] c = "M" -> "m"
      [] OTHER -> c

Lower(s) == [i \in 1..Len(s) |-> LowerChar(s[i])]

\* str.rfind(c): the last index of c in s, 0 when absent (Python's -1 and 0-based +1)
RFind(s, c) ==
    LET hits == {i \in 1..Len(s) : s[i] = c}
    IN IF hits = {} THEN 0 ELSE CHOOSE i \in hits : \A k \in hits : k <= i

\* PurePath.name: the last component
Name(p) == SubSeq(p, RFind(p, "/") + 1, Len(p))

\* PurePath.suffix: from the last dot of the name, unless that dot is the
\* first or the last character of the name
Suffix(p) ==
    LET n == Name(p)
        i == RFind(n, ".")
    IN IF 1 < i /\ i < Len(n) THEN SubSeq(n, i, Len(n)) ELSE <<>>

DotXlsx == <<".", "x", "l", "s", "x">>
DotXlsm == <<".", "x", "l", "s", "m">>

\* ---------------------------------------------------------------- numbers as text
Digits == <<"0", "1", "2", "3", "4", "5", "6", "7", "8", "9">>

IsDigit(c) == \E d \in 1..10 : Digits[d] = c

DigitValue(c) == (CHOOSE d \in 1..10 : Digits[d] = c) - 1

\* the number a string of decimal digits denotes
RECURSIVE Decimal(_)
Decimal(s) ==
    IF s = <<>> THEN 0
    ELSE 10 * Decimal(SubSeq(s, 1, Len(s) - 1)) + DigitValue(s[Len(s)])

\* int(text) on the characters the model uses: surrounding blanks ignored, an
\* optional sign, then one or more digits; anything else raises ValueError
\* (ok is FALSE)
ParseInt(text) ==
    LET t == Strip(text)
        signed == t # <<>> /\ Head(t) \in {"+", "-"}
        body == IF signed THEN Tail(t) ELSE t
    IN IF body = <<>> \/ \E i \in 1..Len(body) : ~IsDigit(body[i])
       THEN [ok |-> FALSE, value |-> 0]
       ELSE [ok |-> TRUE,
             value |-> IF signed /\ Head(t) = "-" THEN 0 - Decimal(body)
                       ELSE Decimal(body)]

\* str(n) of an integer n >= 0
RECURSIVE Str(_)
Str(n) ==
    IF n < 10 THEN <<Digits[n + 1]>>
    ELSE Str(n \div 10) \o <<Digits[(n % 10) + 1]>>

\* ---------------------------------------------------------------- values
\* the pipeline's "no percentage" (Python None)
None == -1

\* percentages the pipeline passes to set_status, in halves of a percent:
\* 12.5 and 80.0
Pcts == {25, 160}

LogTexts == {"line", "more"}
StatusTexts == {"working"}
ErrorTexts == {"pipeline error"}
FinalPaths == {"out.xlsx"}

\* the texts the window itself shows
TextReady == "ready"
TextStarting == "starting"
TextAllDone == "all done"
TextError == "error"

\* str(e) of the exception run_pipeline_core raises: the shortest one, the
\* empty text of Exception()
ExcTexts == {""}

\* a message that is the text of the exception alone
UnexpectedBare(e) == e

\* f"예기치 못한 오류: {e}"
Unexpected(e) == IF e = "" THEN "unexpected error: " ELSE "unexpected error: boom"

\* the ranges of the two image sliders
MaxEdgeMin == 1400
MaxEdgeMax == 4000
QualityMin == 70
QualityMax == 100

\* the settings read from disk when the window opens
StoredSettings == [image_max_edge |-> 2000, image_quality |-> 85, keep_backup |-> FALSE]

\* no settings read yet
NoSettings == [image_max_edge |-> 0, image_quality |-> 0, keep_backup |-> FALSE]

\* where the user drags the sliders to, and what the user types into the
\* text fields: nothing, no number, a number below, in and above the range
EdgePositions == {1400, 4000}
QualityPositions == {70, 100}
EdgeEntries == {NoText, <<"1", "2", "a">>, Str(1000), Str(2000), Str(9999)}
QualityEntries == {NoText, <<"8", "x">>, Str(50), Str(85), Str(999)}

NoEntry == [field |-> "none", text |-> NoText]

\* int(progress) of a non-negative float
PyInt(x) == x \div 2

\* the float 100.0
Hundred == 200

\* ---------------------------------------------------------------- state
VARIABLES
    file_edit,          \* text of the read-only file path field
    clean_check, image_check, precision_check,
    aggressive_check, xmlcleanup_check, force_custom_check,
    options_enabled,    \* the three precision sub-option boxes accept input
    log_edit,           \* lines of the log pane
    progress_bar,       \* value of the progress bar
    status_label,
    run_button,         \* the run button is enabled
    fs,                 \* files that exist on disk
    dialogs,            \* open modal message boxes, innermost last
    queue,              \* posted signal deliveries awaiting the main thread
    njobs,              \* PipelineWorker objects created so far
    pc,                 \* per worker thread: "none", "running", "done"
    params,             \* per worker: constructor arguments
    last_progress,      \* per worker: the nonlocal of run()
    nhooks,             \* per worker: hook calls made by the pipeline (history)
    nsignals,           \* per worker: signals emitted (history)
    nterminal,          \* per worker: finished/failed signals emitted (history)
    last_explicit,      \* per worker: the last percentage the pipeline gave (history)
    handled,            \* per worker: slot invocations on the main thread (history)
    term_handled,       \* per worker: on_finished/on_failed invocations (history)
    last_slot,          \* the most recent slot invocation (history)
    reveals,            \* Thread.start calls for the reveal-in-explorer thread
    revealing,          \* reveal-in-explorer threads that are running
    edits,              \* user edits and file removals so far (history)
    max_edge_slider, quality_slider,    \* values of the two image sliders
    max_edge_edit, quality_edit,        \* texts of the two image text fields
    max_edge_label, quality_label,      \* the number each image label shows
    settings,           \* the settings object of get_settings()
    entered,            \* the text typed in the latest settings input, if any (history)
    submitted,          \* per worker: the settings when it was accepted (history)
    applied,            \* per worker: the settings the pipeline read last
    raised,             \* per worker: run_pipeline_core raised (history)
    ok_handled          \* on_finished invocations so far (history)

checks == <<clean_check, image_check, precision_check, aggressive_check,
            xmlcleanup_check, force_custom_check, options_enabled>>
display == <<log_edit, progress_bar, status_label>>
widgets == <<file_edit, checks, display, run_button>>
workers == <<njobs, pc, params, last_progress, submitted>>
emitted == <<nhooks, nsignals, nterminal, last_explicit, raised>>
delivered == <<handled, term_handled, last_slot, ok_handled>>
image_page == <<max_edge_slider, quality_slider, max_edge_edit, quality_edit,
                max_edge_label, quality_label>>
prefs == <<image_page, settings, entered, applied>>
shown == <<reveals, revealing>>
vars == <<widgets, fs, dialogs, queue, workers, emitted, delivered, shown, edits,
          prefs>>

NoParams == [path |-> NoText, use_clean |-> FALSE, use_image |-> FALSE,
             use_precision |-> FALSE, aggressive |-> FALSE,
             do_xml_cleanup |-> FALSE, force_custom |-> FALSE]

\* a signal on its way to a slot: the emitting worker, its payload (text, and
\* pct for status), and as history its number among the worker's signals, the
\* percentage the hook call was given and the last one given up to that call
NoCall == [job |-> 0, idx |-> 0, kind |-> "none", text |-> "", pct |-> None,
           given |-> None, explicit |-> None]

\* MainWindow.__init__ and _build_ui: the display, and no worker yet
Construct ==
    /\ log_edit = <<>>
    /\ progress_bar = 0
    /\ status_label = TextReady
    /\ run_button = TRUE
    /\ dialogs = <<>>
    /\ queue = <<>>
    /\ njobs = 0
    /\ pc = [j \in Jobs |-> "none"]
    /\ params = [j \in Jobs |-> NoParams]
    /\ last_progress = [j \in Jobs |-> 0]
    /\ nhooks = [j \in Jobs |-> 0]
    /\ nsignals = [j \in Jobs |-> 0]
    /\ nterminal = [j \in Jobs |-> 0]
    /\ last_explicit = [j \in Jobs |-> None]
    /\ handled = [j \in Jobs |-> 0]
    /\ term_handled = [j \in Jobs |-> 0]
    /\ last_slot = NoCall
    /\ reveals = 0
    /\ revealing = 0
    /\ edits = 0
    /\ submitted = [j \in Jobs |-> NoSettings]
    /\ applied = [j \in Jobs |-> NoSettings]
    /\ raised = [j \in Jobs |-> FALSE]
    /\ ok_handled = 0
    /\ entered = NoEntry

\* QAbstractSlider.setValue: the value is bound to the slider's range
Bound(lo, hi, v) == IF v < lo THEN lo ELSE IF v > hi THEN hi ELSE v

\* _build_ui, lines 224-257: the image sliders, text fields and labels show
\* the settings of get_settings()
BuildImagePage ==
    /\ max_edge_slider = Bound(MaxEdgeMin, MaxEdgeMax, settings.image_max_edge)
    /\ max_edge_edit = Str(settings.image_max_edge)
    /\ max_edge_label = Str(settings.image_max_edge)
    /\ quality_slider = Bound(QualityMin, QualityMax, settings.image_quality)
    /\ quality_edit = Str(settings.image_quality)
    /\ quality_label = Str(settings.image_quality)

\* _build_ui: no file chosen, nothing checked, the sub-options disabled
Init ==
    /\ Construct
    /\ settings = StoredSettings
    /\ BuildImagePage
    /\ file_edit = NoText
    /\ clean_check = FALSE /\ image_check = FALSE /\ precision_check = FALSE
    /\ aggressive_check = FALSE /\ xmlcleanup_check = FALSE
    /\ force_custom_check = FALSE
    /\ options_enabled = FALSE
    /\ fs = StartFiles

\* ---------------------------------------------------------------- widgets
\* QProgressBar.setValue with the range (0, 100) of _build_ui: a value outside
\* the range leaves the bar as it is
SetValue(bar, v) == IF 0 <= v /\ v <= 100 THEN v ELSE bar

\* MainWindow._set_status: the bar's new value
SetStatusBar(bar, progress) ==
    IF progress # None THEN SetValue(bar, PyInt(progress)) ELSE bar

\* a log slot that shows the newest text alone
ReplaceLog(lines, text) == <<text>>

\* MainWindow._append_log
AppendLog(lines, text) == Append(lines, text)

\* a main window that takes no input while a worker thread runs
InteractiveWhenIdle == dialogs = <<>> /\ \A j \in Jobs : pc[j] # "running"

\* a modal message box blocks input to the main window
Interactive == dialogs = <<>>

\* inputs from outside so far: user edits, file removals, hook calls
Inputs == edits + SumTo(nhooks, MaxJobs)

\* the user may still edit (bound on the number of inputs)
MayEdit == Interactive /\ Inputs < MaxInputs

\* ---------------------------------------------------------------- user edits
\* MainWindow._on_browse: QFileDialog.getOpenFileName returns an existing file
\* (or "" when cancelled, which changes nothing)
OnBrowse(p) ==
    /\ MayEdit
    /\ p \in fs
    /\ file_edit' = p
    /\ edits' = edits + 1
    /\ UNCHANGED <<checks, display, run_button, fs, dialogs, queue, workers,
                   emitted, delivered, shown, prefs>>

\* the environment removes a file from disk
DeleteFile(p) ==
    /\ Inputs < MaxInputs
    /\ p \in fs
    /\ fs' = fs \ {p}
    /\ edits' = edits + 1
    /\ UNCHANGED <<widgets, dialogs, queue, workers, emitted, delivered, shown, prefs>>

ToggleClean ==
    /\ MayEdit
    /\ clean_check' = ~clean_check
    /\ edits' = edits + 1
    /\ UNCHANGED <<file_edit, image_check, precision_check, aggressive_check,
                   xmlcleanup_check, force_custom_check, options_enabled, display,
                   run_button, fs, dialogs, queue, workers, emitted, delivered,
                   shown, prefs>>

\* image_check.toggled drives _update_image_controls_state, which only enables
\* or disables the image sliders
ToggleImage ==
    /\ MayEdit
    /\ image_check' = ~image_check
    /\ edits' = edits + 1
    /\ UNCHANGED <<file_edit, clean_check, precision_check, aggressive_check,
                   xmlcleanup_check, force_custom_check, options_enabled, display,
                   run_button, fs, dialogs, queue, workers, emitted, delivered,
                   shown, prefs>>

\* an update that only disables the sub-option boxes
UpdatedOptionKept(enabled, cb) == cb

\* MainWindow._update_precision_options_state, for one sub-option box given the
\* state of precision_check
UpdatedOption(enabled, cb) == IF ~enabled THEN FALSE ELSE cb

\* precision_check.toggled is connected to _update_precision_options_state
TogglePrecision ==
    /\ MayEdit
    /\ precision_check' = ~precision_check
    /\ aggressive_check' = UpdatedOption(precision_check', aggressive_check)
    /\ xmlcleanup_check' = UpdatedOption(precision_check', xmlcleanup_check)
    /\ force_custom_check' = UpdatedOption(precision_check', force_custom_check)
    /\ options_enabled' = precision_check'
    /\ edits' = edits + 1
    /\ UNCHANGED <<file_edit, clean_check, image_check, display, run_button, fs,
                   dialogs, queue, workers, emitted, delivered, shown, prefs>>

\* a disabled check box takes no clicks
ToggleAggressive ==
    /\ MayEdit
    /\ options_enabled
    /\ aggressive_check' = ~aggressive_check
    /\ edits' = edits + 1
    /\ UNCHANGED <<file_edit, clean_check, image_check, precision_check,
                   xmlcleanup_check, force_custom_check, options_enabled, display,
                   run_button, fs, dialogs, queue, workers, emitted, delivered,
                   shown, prefs>>

ToggleXmlcleanup ==
    /\ MayEdit
    /\ options_enabled
    /\ xmlcleanup_check' = ~xmlcleanup_check
    /\ edits' = edits + 1
    /\ UNCHANGED <<file_edit, clean_check, image_check, precision_check,
                   aggressive_check, force_custom_check, options_enabled, display,
                   run_button, fs, dialogs, queue, workers, emitted, delivered,
                   shown, prefs>>

ToggleForceCustom ==
    /\ MayEdit
    /\ options_enabled
    /\ force_custom_check' = ~force_custom_check
    /\ edits' = edits + 1
    /\ UNCHANGED <<file_edit, clean_check, image_check, precision_check,
                   aggressive_check, xmlcleanup_check, options_enabled, display,
                   run_button, fs, dialogs, queue, workers, emitted, delivered,
                   shown, prefs>>

\* ---------------------------------------------------------------- settings page
\* _update_image_controls_state: the image sliders and text fields accept
\* input exactly while image_check is checked
ImageControlsEnabled == image_check

\* a handler that stores the two slider values in each other's place
ImageSettingsSwapped ==
    /\ settings' = [settings EXCEPT !.image_max_edge = quality_slider',
                                    !.image_quality = max_edge_slider']
    /\ max_edge_label' = Str(settings'.image_max_edge)
    /\ quality_label' = Str(settings'.image_quality)
    /\ max_edge_edit' = Str(settings'.image_max_edge)
    /\ quality_edit' = Str(settings'.image_quality)

\* MainWindow._on_image_settings_changed, given the sliders' new values
OnImageSettingsChanged ==
    /\ settings' = [settings EXCEPT !.image_max_edge = max_edge_slider',
                                    !.image_quality = quality_slider']
    /\ max_edge_label' = Str(settings'.image_max_edge)
    /\ quality_label' = Str(settings'.image_quality)
    /\ max_edge_edit' = Str(settings'.image_max_edge)
    /\ quality_edit' = Str(settings'.image_quality)

\* max_edge_slider.setValue(v) while the text field holds `text`:
\* valueChanged, and with it _on_image_settings_changed, fires only when the
\* value changes
MaxEdgeSetValue(v, text) ==
    /\ max_edge_slider' = Bound(MaxEdgeMin, MaxEdgeMax, v)
    /\ quality_slider' = quality_slider
    /\ IF max_edge_slider' # max_edge_slider
       THEN OnImageSettingsChanged
       ELSE /\ max_edge_edit' = text
            /\ UNCHANGED <<quality_edit, max_edge_label, quality_label, settings>>

\* quality_slider.setValue(v) while the text field holds `text`
QualitySetValue(v, text) ==
    /\ quality_slider' = Bound(QualityMin, QualityMax, v)
    /\ max_edge_slider' = max_edge_slider
    /\ IF quality_slider' # quality_slider
       THEN OnImageSettingsChanged
       ELSE /\ quality_edit' = text
            /\ UNCHANGED <<max_edge_edit, max_edge_label, quality_label, settings>>

\* the user drags the max-edge slider to another position
MoveMaxEdgeSlider(v) ==
    /\ MayEdit
    /\ ImageControlsEnabled
    /\ v # max_edge_slider
    /\ MaxEdgeSetValue(v, max_edge_edit)
    /\ edits' = edits + 1
    /\ UNCHANGED <<widgets, fs, dialogs, queue, workers, emitted, delivered, shown,
                   applied>>
    /\ entered' = NoEntry

\* the user drags the quality slider to another position
MoveQualitySlider(v) ==
    /\ MayEdit
    /\ ImageControlsEnabled
    /\ v # quality_slider
    /\ QualitySetValue(v, quality_edit)
    /\ edits' = edits + 1
    /\ UNCHANGED <<widgets, fs, dialogs, queue, workers, emitted, delivered, shown,
                   applied>>
    /\ entered' = NoEntry

\* the number an edit-finished handler passes to setValue for a parsed entry
Clamped(lo, hi, value) == IF value < lo THEN lo ELSE IF value > hi THEN hi ELSE value

\* MainWindow._on_max_edge_edit_finished, after the user typed `typed` into the
\* field (at most 4 characters); its warning boxes are opened and closed
\* within the step
OnMaxEdgeEditFinished(typed) ==
    /\ MayEdit
    /\ ImageControlsEnabled
    /\ Len(typed) <= 4
    /\ entered' = [field |-> "max_edge", text |-> typed]
    /\ LET text == Strip(typed)
           n == ParseInt(text)
       IN IF text = <<>> \/ ~n.ok
          THEN /\ max_edge_edit' = Str(max_edge_slider)
               /\ UNCHANGED <<max_edge_slider, quality_slider, quality_edit,
                              max_edge_label, quality_label, settings>>
          ELSE MaxEdgeSetValue(Clamped(MaxEdgeMin, MaxEdgeMax, n.value), typed)
    /\ edits' = edits + 1
    /\ UNCHANGED <<widgets, fs, dialogs, queue, workers, emitted, delivered, shown,
                   applied>>

\* MainWindow._on_quality_edit_finished, after the user typed `typed` into the
\* field (at most 3 characters)
OnQualityEditFinished(typed) ==
    /\ MayEdit
    /\ ImageControlsEnabled
    /\ Len(typed) <= 3
    /\ entered' = [field |-> "quality", text |-> typed]
    /\ LET text == Strip(typed)
           n == ParseInt(text)
       IN IF text = <<>> \/ ~n.ok
          THEN /\ quality_edit' = Str(quality_slider)
               /\ UNCHANGED <<max_edge_slider, quality_slider, max_edge_edit,
                              max_edge_label, quality_label, settings>>
          ELSE QualitySetValue(Clamped(QualityMin, QualityMax, n.value), typed)
    /\ edits' = edits + 1
    /\ UNCHANGED <<widgets, fs, dialogs, queue, workers, emitted, delivered, shown,
                   applied>>

\* MainWindow._on_keep_backup_toggled
OnKeepBackupToggled ==
    /\ MayEdit
    /\ settings' = [settings EXCEPT !.keep_backup = ~@]
    /\ edits' = edits + 1
    /\ UNCHANGED <<widgets, fs, dialogs, queue, workers, emitted, delivered, shown,
                   image_page, applied>>
    /\ entered' = NoEntry

\* ---------------------------------------------------------------- validation
\* a validation that looks at the extension before the disk
ValidateSuffixFirst(text, disk, clean, image, precision, aggr, xml, custom) ==
    LET path_str == Strip(text)
    IN IF path_str = <<>> THEN "NoFileSelected"
       ELSE IF Lower(Suffix(path_str)) \notin {DotXlsx, DotXlsm}
            THEN "UnsupportedExtension"
       ELSE IF path_str \notin disk THEN "FileNotFound"
       ELSE IF ~(clean \/ image \/ precision) THEN "NoOperationSelected"
       ELSE IF precision /\ ~(aggr \/ xml \/ custom)
            THEN "PrecisionRequiresSubOption"
       ELSE "ok"

\* a validation without the check of the precision sub-options
ValidateNoSubOption(text, disk, clean, image, precision, aggr, xml, custom) ==
    LET path_str == Strip(text)
    IN IF path_str = <<>> THEN "NoFileSelected"
       ELSE IF path_str \notin disk THEN "FileNotFound"
       ELSE IF Lower(Suffix(path_str)) \notin {DotXlsx, DotXlsm}
            THEN "UnsupportedExtension"
       ELSE IF ~(clean \/ image \/ precision) THEN "NoOperationSelected"
       ELSE "ok"

\* MainWindow._on_run_clicked, lines 920-946: the message box of the first
\* check that fails, "ok" when none does
Validate(text, disk, clean, image, precision, aggr, xml, custom) ==
    LET path_str == Strip(text)
    IN IF path_str = <<>> THEN "NoFileSelected"
       ELSE IF path_str \notin disk THEN "FileNotFound"
       ELSE IF Lower(Suffix(path_str)) \notin {DotXlsx, DotXlsm}
            THEN "UnsupportedExtension"
       ELSE IF ~(clean \/ image \/ precision) THEN "NoOperationSelected"
       ELSE IF precision /\ ~(aggr \/ xml \/ custom)
            THEN "PrecisionRequiresSubOption"
       ELSE "ok"

ValidationErrors == {"NoFileSelected", "FileNotFound", "UnsupportedExtension",
                     "NoOperationSelected", "PrecisionRequiresSubOption"}

\* a message box: what it says, and the worker whose slot opened it (0: none)
Box(kind, job, text) == [kind |-> kind, job |-> job, text |-> text]

\* ---------------------------------------------------------------- run request
\* PipelineWorker.__init__
NewWorker(path, clean, image, precision, aggressive, xmlcleanup, force_custom) ==
    [path |-> path, use_clean |-> clean, use_image |-> image,
     use_precision |-> precision, aggressive |-> aggressive,
     do_xml_cleanup |-> xmlcleanup, force_custom |-> force_custom]

\* MainWindow._on_run_clicked, lines 948-951: what an accepted request does to
\* the display before the worker is built
AcceptDisplay ==
    /\ log_edit' = <<>>
    /\ progress_bar' = SetValue(progress_bar, 0)
    /\ status_label' = TextStarting
    /\ run_button' = FALSE

\* MainWindow._on_run_clicked, lines 953-1001: build the worker, connect its
\* signals, start the thread
StartWorker ==
    /\ njobs < MaxJobs
    /\ njobs' = njobs + 1
    /\ params' = [params EXCEPT ![njobs + 1] =
          NewWorker(Strip(file_edit), clean_check, image_check, precision_check,
                    aggressive_check, xmlcleanup_check, force_custom_check)]
    /\ pc' = [pc EXCEPT ![njobs + 1] = "running"]
    /\ last_progress' = [last_progress EXCEPT ![njobs + 1] = 0]
    /\ submitted' = [submitted EXCEPT ![njobs + 1] = settings]

\* a rejection that has already cleared the display
RejectAfterClear(v) ==
    /\ dialogs' = Append(dialogs, Box(v, 0, ""))
    /\ log_edit' = <<>>
    /\ progress_bar' = 0
    /\ status_label' = TextStarting
    /\ UNCHANGED <<file_edit, checks, run_button, workers>>

\* MainWindow._on_run_clicked, lines 921-946: a failed check shows its
\* message box and returns
RejectRequest(v) ==
    /\ dialogs' = Append(dialogs, Box(v, 0, ""))
    /\ UNCHANGED <<widgets, workers>>

\* MainWindow._on_run_clicked: a click on the enabled run button
OnRunClicked ==
    /\ Interactive
    /\ run_button
    /\ LET v == Validate(file_edit, fs, clean_check, image_check, precision_check,
                         aggressive_check, xmlcleanup_check, force_custom_check)
       IN IF v # "ok"
          THEN RejectRequest(v)
          ELSE /\ AcceptDisplay
               /\ StartWorker
               /\ UNCHANGED <<file_edit, checks, dialogs>>
    /\ UNCHANGED <<fs, queue, emitted, delivered, shown, prefs, edits>>

\* ---------------------------------------------------------------- worker thread
Running(j) == pc[j] = "running"

\* the pipeline may make another hook call (bound on the number of inputs)
MayCall(j) == Running(j) /\ Inputs < MaxInputs

\* a delivery that overtakes the calls already posted
PostFront(q, e) == <<e>> \o q

\* Signal.emit from the worker thread: a queued connection posts the call at
\* the end of the main thread's event queue
Post(q, e) == Append(q, e)

Signal(j, kind, text, pct, given) ==
    [job |-> j, idx |-> nsignals[j] + 1, kind |-> kind, text |-> text, pct |-> pct,
     given |-> given,
     explicit |-> IF kind = "status" THEN last_explicit'[j] ELSE None]

Emit(j, kind, text, pct, given) ==
    /\ queue' = Post(queue, Signal(j, kind, text, pct, given))
    /\ nsignals' = [nsignals EXCEPT ![j] = @ + 1]
    /\ nterminal' = [nterminal EXCEPT ![j] =
                        IF kind \in {"finished", "failed"} THEN @ + 1 ELSE @]

HookCalled(j) == nhooks' = [nhooks EXCEPT ![j] = @ + 1]

\* PipelineWorker.run.log_cb
LogCb(j, msg) ==
    /\ MayCall(j)
    /\ HookCalled(j)
    /\ Emit(j, "log", msg, None, None)
    /\ UNCHANGED <<last_explicit, raised, widgets, fs, dialogs, workers, delivered, shown, prefs, edits>>

\* a status hook that falls back to zero
StickyOrZero(last, progress) == IF progress # None THEN progress ELSE 0

\* a status hook that passes the missing percentage on
StickyForgotten(last, progress) == progress

\* PipelineWorker.run.set_status_cb: the value of last_progress after the call
StickyProgress(last, progress) == IF progress # None THEN progress ELSE last

\* PipelineWorker.run.set_status_cb
SetStatusCb(j, text, progress) ==
    /\ MayCall(j)
    /\ HookCalled(j)
    /\ last_progress' = [last_progress EXCEPT ![j] = StickyProgress(@, progress)]
    /\ last_explicit' = [last_explicit EXCEPT ![j] =
                            IF progress # None THEN progress ELSE @]
    /\ Emit(j, "status", text, last_progress'[j], progress)
    /\ UNCHANGED <<widgets, fs, dialogs, njobs, pc, params, submitted, raised,
                   delivered, shown, prefs, edits>>

\* PipelineWorker.run.show_error_cb
ShowErrorCb(j, text) ==
    /\ MayCall(j)
    /\ HookCalled(j)
    /\ Emit(j, "failed", text, None, None)
    /\ UNCHANGED <<last_explicit, raised, widgets, fs, dialogs, workers, delivered, shown, prefs, edits>>

\* PipelineWorker.run.on_finished_cb
OnFinishedCb(j, final_path) ==
    /\ MayCall(j)
    /\ HookCalled(j)
    /\ Emit(j, "finished", final_path, None, None)
    /\ UNCHANGED <<last_explicit, raised, widgets, fs, dialogs, workers, delivered, shown, prefs, edits>>

\* run_pipeline_core returns: PipelineWorker.run falls off its end
PipelineReturns(j) ==
    /\ Running(j)
    /\ pc' = [pc EXCEPT ![j] = "done"]
    /\ UNCHANGED <<widgets, fs, dialogs, queue, njobs, params, last_progress,
                   submitted, emitted, delivered, shown, prefs, edits>>

\* run_pipeline_core raises: the except clause of PipelineWorker.run
PipelineRaises(j, e) ==
    /\ Running(j)
    /\ raised' = [raised EXCEPT ![j] = TRUE]
    /\ Emit(j, "failed", Unexpected(e), None, None)
    /\ pc' = [pc EXCEPT ![j] = "done"]
    /\ UNCHANGED <<widgets, fs, dialogs, njobs, params, last_progress, submitted,
                   nhooks, last_explicit, delivered, shown, prefs, edits>>

\* ---------------------------------------------------------------- main thread
\* the posted call the event loop delivers next
NextEvent(q) == Head(q)

SlotInvoked(e) ==
    /\ handled' = [handled EXCEPT ![e.job] = @ + 1]
    /\ term_handled' = [term_handled EXCEPT ![e.job] =
                           IF e.kind \in {"finished", "failed"} THEN @ + 1 ELSE @]
    /\ last_slot' = e
    /\ ok_handled' = IF e.kind = "finished" THEN ok_handled + 1 ELSE ok_handled

\* _append_log, connected to worker.log
SlotLog(e) ==
    /\ log_edit' = AppendLog(log_edit, e.text)
    /\ UNCHANGED <<progress_bar, status_label, run_button, dialogs>>

\* _set_status, connected to worker.status
SlotStatus(e) ==
    /\ status_label' = e.text
    /\ progress_bar' = SetStatusBar(progress_bar, e.pct)
    /\ UNCHANGED <<log_edit, run_button, dialogs>>

\* on_finished up to its message box, lines 966-972
SlotFinished(e) ==
    /\ status_label' = TextAllDone
    /\ progress_bar' = SetStatusBar(progress_bar, Hundred)
    /\ run_button' = TRUE
    /\ dialogs' = Append(dialogs, Box("Completed", e.job, e.text))
    /\ UNCHANGED log_edit

\* on_failed, lines 987-989; nothing follows its message box
SlotFailed(e) ==
    /\ run_button' = TRUE
    /\ status_label' = TextError
    /\ progress_bar' = SetStatusBar(progress_bar, None)
    /\ dialogs' = Append(dialogs, Box("Failed", e.job, e.text))
    /\ UNCHANGED log_edit

\* the event loop of the main thread (the window's, or a message box's nested
\* one) delivers the next posted signal to its slot
Dispatch ==
    /\ queue # <<>>
    /\ LET e == NextEvent(queue)
       IN /\ queue' = Tail(queue)
          /\ SlotInvoked(e)
          /\ CASE e.kind = "log" -> SlotLog(e)
               [] e.kind = "status" -> SlotStatus(e)
               [] e.kind = "finished" -> SlotFinished(e)
               [] e.kind = "failed" -> SlotFailed(e)
    /\ UNCHANGED <<file_edit, checks, fs, workers, emitted, shown, prefs, edits>>

\* a reset that also empties the log pane
ResetClearsLog ==
    /\ file_edit' = NoText
    /\ clean_check' = FALSE
    /\ image_check' = FALSE
    /\ precision_check' = FALSE
    /\ aggressive_check' = FALSE
    /\ xmlcleanup_check' = FALSE
    /\ force_custom_check' = FALSE
    /\ options_enabled' = FALSE
    /\ progress_bar' = 0
    /\ status_label' = TextReady
    /\ log_edit' = <<>>
    /\ UNCHANGED run_button

\* MainWindow._reset_ui_after_finish
ResetUiAfterFinish ==
    /\ file_edit' = NoText
    /\ clean_check' = FALSE
    /\ image_check' = FALSE
    /\ precision_check' = FALSE
    /\ aggressive_check' = FALSE
    /\ xmlcleanup_check' = FALSE
    /\ force_custom_check' = FALSE
    /\ options_enabled' = FALSE
    /\ progress_bar' = SetValue(progress_bar, 0)
    /\ status_label' = TextReady
    /\ UNCHANGED <<log_edit, run_button>>

\* on_finished, lines 974-982: Thread(target=open_in_explorer_select).start()
\* inside try/except; the thread starts, or start raises and the exception is
\* swallowed
StartReveal(started) ==
    /\ reveals' = reveals + 1
    /\ revealing' = IF started THEN revealing + 1 ELSE revealing

\* an on_finished whose reveal is not inside try/except: when Thread.start
\* raises, the exception leaves on_finished before the reset
DismissUnguarded(started) ==
    /\ dialogs # <<>>
    /\ dialogs' = SubSeq(dialogs, 1, Len(dialogs) - 1)
    /\ IF dialogs[Len(dialogs)].kind = "Completed"
       THEN /\ StartReveal(started)
            /\ IF started THEN ResetUiAfterFinish ELSE UNCHANGED widgets
       ELSE /\ started
            /\ UNCHANGED <<widgets, shown>>
    /\ UNCHANGED <<fs, queue, workers, emitted, delivered, edits, prefs>>

\* the user closes the innermost message box and its caller goes on: after
\* the box of on_finished, lines 973-984 (the reveal thread, then the reset);
\* nothing follows any other box
DismissDialog(started) ==
    /\ dialogs # <<>>
    /\ dialogs' = SubSeq(dialogs, 1, Len(dialogs) - 1)
    /\ IF dialogs[Len(dialogs)].kind = "Completed"
       THEN /\ StartReveal(started)
            /\ ResetUiAfterFinish
       ELSE /\ started
            /\ UNCHANGED <<widgets, shown>>
    /\ UNCHANGED <<fs, queue, workers, emitted, delivered, edits, prefs>>

\* open_in_explorer_select returns or raises on its own daemon thread: the
\* thread ends either way, and an exception goes to threading.excepthook
RevealEnds(ok) ==
    /\ revealing > 0
    /\ revealing' = revealing - 1
    /\ UNCHANGED <<reveals, widgets, fs, dialogs, queue, workers, emitted,
                   delivered, edits, prefs>>

\* ---------------------------------------------------------------- specification
Next ==
    \/ \E p \in AllFiles : OnBrowse(p)
    \/ \E p \in AllFiles : DeleteFile(p)
    \/ ToggleClean
    \/ ToggleImage
    \/ TogglePrecision
    \/ ToggleAggressive
    \/ ToggleXmlcleanup
    \/ ToggleForceCustom
    \/ OnRunClicked
    \/ \E j \in Jobs, msg \in LogTexts : LogCb(j, msg)
    \/ \E j \in Jobs, text \in StatusTexts, progress \in Pcts \cup {None} :
          SetStatusCb(j, text, progress)
    \/ \E j \in Jobs, text \in ErrorTexts : ShowErrorCb(j, text)
    \/ \E j \in Jobs, final_path \in FinalPaths : OnFinishedCb(j, final_path)
    \/ \E j \in Jobs : PipelineReturns(j)
    \/ \E j \in Jobs, e \in ExcTexts : PipelineRaises(j, e)
    \/ Dispatch
    \/ \E started \in BOOLEAN : DismissDialog(started)
    \/ \E ok \in BOOLEAN : RevealEnds(ok)

Spec == Init /\ [][Next]_vars

\* ---------------------------------------------------------------- settings and jobs
\* The pipeline takes no settings from PipelineWorker.run: the image stage
\* reads the object of get_settings() when it runs, on the worker thread.
PipelineReadsSettings(j) ==
    /\ Running(j)
    /\ applied' = [applied EXCEPT ![j] = settings]
    /\ UNCHANGED <<widgets, fs, dialogs, queue, workers, emitted, delivered, shown,
                   edits, image_page, settings, entered>>

\* The settings page beside a job: the user picks a file, checks the image
\* box, moves the sliders, types into the text fields, toggles the backup box
\* and clicks run, while the pipeline reads the settings it works with.
NextSettings ==
    \/ \E p \in AllFiles : OnBrowse(p)
    \/ ToggleImage
    \/ \E v \in EdgePositions : MoveMaxEdgeSlider(v)
    \/ \E v \in QualityPositions : MoveQualitySlider(v)
    \/ \E typed \in EdgeEntries : OnMaxEdgeEditFinished(typed)
    \/ \E typed \in QualityEntries : OnQualityEditFinished(typed)
    \/ OnKeepBackupToggled
    \/ OnRunClicked
    \/ \E started \in BOOLEAN : DismissDialog(started)
    \/ \E j \in Jobs : PipelineReadsSettings(j)
    \/ \E j \in Jobs : PipelineReturns(j)

SpecSettings == Init /\ [][NextSettings]_vars

\* ---------------------------------------------------------------- validation alone
\* Every input of the validation: any file name in the field, any set of
\* files on disk, any selection the check boxes can hold (a sub-option is
\* checked only under a checked precision box), and then the click.
InitValidation ==
    /\ Construct
    /\ file_edit \in AllFiles \cup {NoText}
    /\ fs \in SUBSET AllFiles
    /\ clean_check \in BOOLEAN /\ image_check \in BOOLEAN
    /\ precision_check \in BOOLEAN
    /\ aggressive_check \in {FALSE, precision_check}
    /\ xmlcleanup_check \in {FALSE, precision_check}
    /\ force_custom_check \in {FALSE, precision_check}
    /\ options_enabled = precision_check
    /\ settings = StoredSettings
    /\ BuildImagePage

NextValidation ==
    \/ OnRunClicked
    \/ \E started \in BOOLEAN : DismissDialog(started)

SpecValidation == InitValidation /\ [][NextValidation]_vars

\* ---------------------------------------------------------------- claims
Top(boxes) == boxes[Len(boxes)]

\* the signals of worker j still in the queue, in queue order
RECURSIVE Pending(_, _)
Pending(q, j) ==
    IF q = <<>> THEN <<>>
    ELSE IF Head(q).job = j THEN <<Head(q)>> \o Pending(Tail(q), j)
    ELSE Pending(Tail(q), j)

\* C1: every worker emits exactly one terminal signal (finished or failed):
\* never more than one, and exactly one once run has returned.
C1_ExactlyOneTerminal ==
    \A j \in Jobs :
        /\ nterminal[j] <= 1
        /\ pc[j] = "done" => nterminal[j] = 1

\* C2: once a worker has emitted a terminal signal it emits nothing more, and
\* once a terminal slot of a worker has run no slot runs for that worker again.
C2_NothingAfterTerminal ==
    [][\A j \in Jobs :
          /\ nterminal[j] >= 1 => nsignals'[j] = nsignals[j]
          /\ term_handled[j] >= 1 => handled'[j] = handled[j]]_vars

\* C3: from the acceptance of a run request until a terminal slot of that same
\* worker has run, the run button is disabled.
C3_ButtonDisabledWhileInFlight ==
    (njobs >= 1 /\ term_handled[njobs] = 0) => ~run_button

\* C4: at most one worker thread is inside PipelineWorker.run.
C4_OneWorkerThread == Cardinality({j \in Jobs : pc[j] = "running"}) <= 1

\* C6: once the request for a later worker has been accepted, no slot runs for
\* an earlier worker.
C6_NoInterleavedJobs ==
    [][\A j \in Jobs : handled'[j] # handled[j] => j = njobs]_vars

\* C5: every hook call posts exactly one signal, and the slots of a worker run
\* in the order of its hook calls: the queue holds exactly the signals not yet
\* delivered, in emission order, and the slot that ran last took the signal
\* whose number is the count of slots run for that worker.
C5_InOrderDelivery ==
    \A j \in Jobs :
        LET pend == Pending(queue, j)
        IN /\ Len(pend) = nsignals[j] - handled[j]
           /\ \A i \in 1..Len(pend) : pend[i].idx = handled[j] + i
           /\ last_slot.job = j => last_slot.idx = handled[j]
           /\ nhooks[j] <= nsignals[j] /\ nsignals[j] <= nhooks[j] + 1
           /\ pc[j] = "running" => nsignals[j] = nhooks[j]

\* three signals of the first worker have reached their slots
C5_Witness == handled[1] = 3 /\ queue = <<>> /\ last_slot.kind = "failed"

\* a status slot has just run for a hook call made after the pipeline gave a
\* percentage in this job
StatusSlotRan(j) ==
    /\ handled'[j] # handled[j]
    /\ last_slot'.kind = "status"
    /\ last_slot'.explicit # None

\* C7 as stated: after a status slot, the value it was passed and the value of
\* the progress bar both equal the last percentage the pipeline gave.
C7_BarEqualsPercent ==
    [][\A j \in Jobs :
          StatusSlotRan(j) =>
              /\ last_slot'.pct = last_slot'.explicit
              /\ 2 * progress_bar' = last_slot'.explicit]_vars

\* C7, amended: after a status slot, the value it was passed equals the last
\* percentage the pipeline gave, and the progress bar shows its integer part.
C7_StickyPercentShown ==
    [][\A j \in Jobs :
          StatusSlotRan(j) =>
              /\ last_slot'.pct = last_slot'.explicit
              /\ 2 * progress_bar' <= last_slot'.explicit
              /\ last_slot'.explicit < 2 * progress_bar' + 2]_vars

\* a status call without a percentage, made after 12.5 was given, has reached
\* the bar
C7_Witness ==
    /\ last_slot.kind = "status"
    /\ last_slot.given = None
    /\ last_slot.explicit = 25
    /\ progress_bar = 12

\* C8 as stated: a status call without a percentage emits the last percentage
\* given in this job: there always is one, also on the first call of a job.
C8_NeverDefaulted ==
    \A i \in 1..Len(queue) :
        (queue[i].kind = "status" /\ queue[i].given = None) =>
            (queue[i].explicit # None /\ queue[i].pct = queue[i].explicit)

\* C8, amended: a status call without a percentage emits the last percentage
\* given in this job, and 0.0 when none has been given yet in this job.
C8_StickyOrInitialZero ==
    \A i \in 1..Len(queue) :
        (queue[i].kind = "status" /\ queue[i].given = None) =>
            queue[i].pct = IF queue[i].explicit # None THEN queue[i].explicit ELSE 0

\* a status call without a percentage, made after 80.0 was given, is in the
\* queue behind the call that gave it
C8_Witness ==
    /\ Len(queue) = 2
    /\ queue[1].kind = "status" /\ queue[1].given = 160
    /\ queue[2].kind = "status" /\ queue[2].given = None
    /\ queue[2].explicit = 160 /\ queue[2].pct = 160

\* the five checks of the claim, in its order
Present == Strip(file_edit) # <<>>
OnDisk == Strip(file_edit) \in fs
AllowedSuffix == Lower(Suffix(Strip(file_edit))) \in {DotXlsx, DotXlsm}
OperationChosen == clean_check \/ image_check \/ precision_check
SubOptionChosen ==
    precision_check => (aggressive_check \/ xmlcleanup_check \/ force_custom_check)

Passes == <<Present, OnDisk, AllowedSuffix, OperationChosen, SubOptionChosen>>
Reports == <<"NoFileSelected", "FileNotFound", "UnsupportedExtension",
             "NoOperationSelected", "PrecisionRequiresSubOption">>

FirstFailure ==
    LET failing == {k \in 1..5 : ~Passes[k]}
    IN IF failing = {} THEN "ok"
       ELSE Reports[CHOOSE k \in failing : \A m \in failing : k <= m]

\* C9: a click on the run button reports exactly the first failing check, in
\* the order path present, file on disk, extension allowed, operation chosen,
\* precision sub-option chosen; it starts a worker only when none fails.
C9_FirstFailureReported ==
    [][(dialogs = <<>> /\ (dialogs' # dialogs \/ njobs' # njobs)) =>
          IF FirstFailure = "ok"
          THEN njobs' = njobs + 1 /\ dialogs' = dialogs
          ELSE njobs' = njobs /\ dialogs' = <<Box(FirstFailure, 0, "")>>]_vars

\* file-not-found is on screen for a missing file whose extension is not allowed
C9_Witness ==
    /\ dialogs # <<>>
    /\ Top(dialogs).kind = "FileNotFound"
    /\ Present /\ ~OnDisk /\ ~AllowedSuffix

\* C10: a click that fails validation creates no worker and starts no thread,
\* and showing or closing its message box changes no widget: the log, the
\* bar, the status text, the run button, the file field, the check boxes.
C10_RejectionChangesNothing ==
    [][/\ (FirstFailure # "ok") =>
             /\ njobs' = njobs /\ params' = params
             /\ \A j \in Jobs : pc'[j] = "running" => pc[j] = "running"
       /\ (Len(dialogs') = Len(dialogs) + 1 /\ Top(dialogs').kind \in ValidationErrors)
             => (widgets' = widgets /\ run_button' /\ workers' = workers)
       /\ (Len(dialogs') = Len(dialogs) - 1 /\ Top(dialogs).kind \in ValidationErrors)
             => (widgets' = widgets /\ workers' = workers)]_vars

\* a rejection is on screen while the log of an earlier job is kept
C10_Witness ==
    /\ dialogs # <<>>
    /\ Top(dialogs).kind \in ValidationErrors
    /\ log_edit # <<>>
    /\ run_button

\* the two conditions on the constructor arguments of a worker
ParamsOk(p) ==
    /\ p.use_clean \/ p.use_image \/ p.use_precision
    /\ p.use_precision => (p.aggressive \/ p.do_xml_cleanup \/ p.force_custom)

\* C11: every worker that is started carries at least one operation, and with
\* precision at least one sub-option; its arguments are the stripped file
\* field and the check boxes of a click that passed every check, and nothing
\* changes them afterwards, whatever the user does to the file field or the
\* check boxes while the job runs.
C11_ValidatedParamsFrozen ==
    [][/\ \A j \in Jobs : pc'[j] # "none" => ParamsOk(params'[j])
       /\ njobs' # njobs =>
             /\ FirstFailure = "ok"
             /\ params'[njobs'] =
                   [path |-> Strip(file_edit), use_clean |-> clean_check,
                    use_image |-> image_check, use_precision |-> precision_check,
                    aggressive |-> aggressive_check,
                    do_xml_cleanup |-> xmlcleanup_check,
                    force_custom |-> force_custom_check]
       /\ \A j \in Jobs : pc[j] # "none" => params'[j] = params[j]]_vars

\* a worker runs with the clean-up it was started with while the user has
\* unchecked that box
C11_Witness ==
    /\ pc[1] = "running"
    /\ params[1].use_clean /\ ~clean_check
    /\ ParamsOk(params[1])

C13_IdleMeansSubmitReady ==
    ((\A j \in Jobs : pc[j] # "running") /\ queue = <<>> /\ dialogs = <<>>)
        => run_button

\* the boxes of on_finished that are still open
CompletedOpen == Cardinality({i \in 1..Len(dialogs) : dialogs[i].kind = "Completed"})

CompletedClosed == Len(dialogs') = Len(dialogs) - 1 /\ Top(dialogs).kind = "Completed"

FailedClosed == Len(dialogs') = Len(dialogs) - 1 /\ Top(dialogs).kind = "Failed"

\* C14: every on_finished calls Thread.start for the reveal exactly once, when
\* its message box is closed, and nothing else ever does; whether the thread
\* starts or not, the step posts no failed signal and runs no on_failed, the
\* run button is and stays enabled and the reset runs; and the end of a
\* reveal thread, normal or not, changes nothing of the window.
C14_RevealOncePerSuccess ==
    [][/\ reveals' + CompletedOpen' = ok_handled'
       /\ IF CompletedClosed
          THEN /\ reveals' = reveals + 1
               /\ run_button /\ run_button'
               /\ file_edit' = NoText /\ status_label' = TextReady
               /\ queue' = queue /\ delivered' = delivered
               /\ dialogs' = SubSeq(dialogs, 1, Len(dialogs) - 1)
          ELSE reveals' = reveals
       /\ revealing' < revealing =>
             (widgets' = widgets /\ queue' = queue /\ dialogs' = dialogs
              /\ delivered' = delivered)]_vars

\* a job has succeeded, its one reveal was attempted and no reveal thread is
\* left (it never started, or it has ended), and the window has been reset
C14_Witness ==
    /\ ok_handled = 1 /\ reveals = 1 /\ revealing = 0
    /\ dialogs = <<>>
    /\ run_button /\ file_edit = NoText /\ status_label = TextReady

\* C15 as stated: the settings the pipeline works with in a job are the
\* settings of the moment the job's request was accepted.
C15_AppliedIsSubmitted ==
    \A j \in Jobs : applied[j] # NoSettings => applied[j] = submitted[j]

FinishedRan == handled' # handled /\ last_slot'.kind = "finished"

FailedRan == handled' # handled /\ last_slot'.kind = "failed"

\* C16: on_finished puts the bar at 100 and, once its message box is closed,
\* empties the file field, unchecks the six check boxes, puts the bar at 0
\* and the status text at its initial text, and leaves the log as it is;
\* on_failed enables the run button and sets the status text, and neither it
\* nor the closing of its box changes the file field, a check box, the bar or
\* the log.
C16_SuccessResetsFailureKeeps ==
    [][/\ FinishedRan =>
             /\ progress_bar' = 100
             /\ log_edit' = log_edit /\ file_edit' = file_edit /\ checks' = checks
       /\ CompletedClosed =>
             /\ file_edit' = NoText
             /\ ~clean_check' /\ ~image_check' /\ ~precision_check'
             /\ ~aggressive_check' /\ ~xmlcleanup_check' /\ ~force_custom_check'
             /\ progress_bar' = 0
             /\ status_label' = TextReady
             /\ log_edit' = log_edit
       /\ FailedRan =>
             /\ run_button' /\ status_label' = TextError
             /\ file_edit' = file_edit /\ checks' = checks
             /\ progress_bar' = progress_bar /\ log_edit' = log_edit
       /\ FailedClosed => widgets' = widgets]_vars

\* a job that wrote to the log has succeeded and its box is closed: the
\* window is reset and the log is still there
C16_Witness ==
    /\ last_slot.kind = "finished"
    /\ dialogs = <<>>
    /\ log_edit # <<>>
    /\ file_edit = NoText /\ progress_bar = 0 /\ status_label = TextReady

\* C17: the log pane is emptied exactly when a run request is accepted, gets
\* the text of a log signal appended at its end exactly when that signal
\* reaches _append_log, and is changed by nothing else: no status slot, no
\* on_finished or on_failed, no reset, no rejected request.
C17_LogIsDispatchedTexts ==
    [][IF njobs' # njobs THEN log_edit' = <<>>
       ELSE IF handled' # handled /\ last_slot'.kind = "log"
            THEN log_edit' = log_edit \o <<last_slot'.text>>
       ELSE log_edit' = log_edit]_vars

\* two log signals with different texts have reached the pane, in their
\* order, and a later slot has left it alone
C17_Witness ==
    /\ log_edit = <<"more", "line">>
    /\ handled[1] = 3
    /\ last_slot.kind # "log"

\* C18: a worker thread that runs does not keep the main thread from its
\* handlers: whenever no message box is open, a check box can be toggled and a
\* setting changed, and a posted signal can be delivered, whatever the worker
\* has done so far.
C18_UiNotBlockedByWorker ==
    \A j \in Jobs :
        pc[j] = "running" =>
            /\ (dialogs = <<>> /\ Inputs < MaxInputs) =>
                  (ENABLED ToggleClean /\ ENABLED TogglePrecision
                   /\ ENABLED OnKeepBackupToggled)
            /\ queue # <<>> => ENABLED Dispatch

\* the user has chosen another file after the request was accepted, and the
\* worker has neither emitted a signal nor ended
C18_Witness ==
    /\ pc[1] = "running"
    /\ nsignals[1] = 0
    /\ file_edit # NoText /\ Strip(file_edit) # params[1].path

\* C19: a precision sub-option is checked only while precision is checked,
\* and every worker started without precision has its three sub-flags false.
C19_SubOptionsOnlyUnderPrecision ==
    /\ (aggressive_check \/ xmlcleanup_check \/ force_custom_check) => precision_check
    /\ \A j \in Jobs :
          (pc[j] # "none" /\ ~params[j].use_precision) =>
              (~params[j].aggressive /\ ~params[j].do_xml_cleanup
               /\ ~params[j].force_custom)

\* three edits have left nothing checked and no file chosen: precision was
\* checked, a sub-option was checked, precision was unchecked
C19_Witness ==
    /\ edits = 3 /\ fs = StartFiles /\ njobs = 0
    /\ file_edit = NoText
    /\ ~clean_check /\ ~image_check /\ ~precision_check
    /\ ~aggressive_check /\ ~xmlcleanup_check /\ ~force_custom_check

\* what an entry typed into a field with the range lo..hi must have stored
StoredFor(typed, lo, hi, before, after) ==
    LET n == ParseInt(typed)
    IN IF Strip(typed) = <<>> \/ ~n.ok THEN after = before
       ELSE IF n.value < lo THEN after = lo
       ELSE IF n.value > hi THEN after = hi
       ELSE after = n.value

\* C20: the stored image_max_edge is always within 1400..4000 and the stored
\* image_quality within 70..100; an entry below the range stores the minimum,
\* one above it the maximum, one inside it the number itself, and an empty
\* entry or one that is no number leaves the stored settings as they were.
C20_StoredInDomain ==
    [][/\ settings'.image_max_edge \in MaxEdgeMin..MaxEdgeMax
       /\ settings'.image_quality \in QualityMin..QualityMax
       /\ (edits' # edits /\ entered'.field = "max_edge") =>
             /\ StoredFor(entered'.text, MaxEdgeMin, MaxEdgeMax,
                          settings.image_max_edge, settings'.image_max_edge)
             /\ settings'.image_quality = settings.image_quality
       /\ (edits' # edits /\ entered'.field = "quality") =>
             /\ StoredFor(entered'.text, QualityMin, QualityMax,
                          settings.image_quality, settings'.image_quality)
             /\ settings'.image_max_edge = settings.image_max_edge]_vars

\* 9999 was typed into the max-edge field and 4000 is stored
C20_Witness ==
    /\ entered = [field |-> "max_edge", text |-> Str(9999)]
    /\ settings.image_max_edge = MaxEdgeMax
    /\ max_edge_slider = MaxEdgeMax

\* C21 as stated: once an edit-finished handler has run, whatever was typed,
\* the text field it belongs to shows the value of its slider, and so do the
\* label and the stored setting.
C21_FieldShowsSliderValue ==
    /\ entered.field = "max_edge" =>
          /\ max_edge_edit = Str(max_edge_slider)
          /\ max_edge_label = Str(max_edge_slider)
          /\ settings.image_max_edge = max_edge_slider
    /\ entered.field = "quality" =>
          /\ quality_edit = Str(quality_slider)
          /\ quality_label = Str(quality_slider)
          /\ settings.image_quality = quality_slider

====
